---- MODULE Spec2Model ----
(***************************************************************************)
(* Model of libs/nft-events/src/erc721.rs: the ERC721 tracking loop        *)
(* track_erc721_events, the per-event dispatcher process_event and the     *)
(* metadata resolver get_metadata / save_metadata_to_db_if_not_exists.     *)
(*                                                                         *)
(* The chain client (EvmClient), the event fetch (erc721_evm) and the      *)
(* metadata store (erc721_db) are collaborators: the client's answers are  *)
(* inputs drawn by the actions, the store is two tables of rows.           *)
(***************************************************************************)
EXTENDS Integers, Sequences, FiniteSets, TLC

\* ------------------------------------------------------------------ bounds
\* u64 is modelled as WordBits-bit unsigned: arithmetic is modulo 2^WordBits.
WordBits == 12
MaxHead == 8        \* largest head height the client returns
MaxStart == 1       \* largest start_from passed by the caller
MaxStep == 4        \* largest step passed by the caller
MaxEnd == 1         \* largest end_block passed by the caller
MaxEvents == 2      \* most events the chain holds for one run

\* --------------------------------------------------------- program constants
CONFIRMATION_LAG == 6
SLEEP_AFTER_BATCH == 5
SLEEP_ON_WAIT_Short == SLEEP_AFTER_BATCH
SLEEP_ON_WAIT == 30

Modulus == 2 ^ WordBits
U64_MAX == Modulus - 1

\* With heads up to MaxHead a run whose arithmetic stays in range has
\* from <= MaxHead - 6 + 1 and at most that many successful fetches; runs
\* whose arithmetic wraps are followed as far as these two caps.
MaxFrom == MaxHead - CONFIRMATION_LAG + 2
MaxFetches == MaxHead - CONFIRMATION_LAG + 1

\* Option<u64>::None
None == -1
Addresses == {"a1", "a2"}
TokenIds == {1, 2}

Min(a, b) == IF a <= b THEN a ELSE b
Max(a, b) == IF a >= b THEN a ELSE b

VARIABLES
    start_from,       \* parameter start_from
    step_arg,         \* parameter step, as passed
    end_block,        \* parameter end_block: None or a block number
    overflow_checks,  \* build profile: TRUE panics on overflow, FALSE wraps
    pc,               \* "poll", "fetch", "events", "done", "panicked"
    from,             \* let mut from
    step,             \* let mut step
    latest,           \* latest_block_number of the current iteration
    to,               \* to of the current iteration
    events,           \* the batch being dispatched
    idx,              \* position of the for loop in events
    collections,      \* store: Collection rows, id = position
    tokens,           \* store: Token rows
    ranges,           \* history: the ranges fetched successfully, in order
    log,              \* history: one entry per process_event call
    nfetched,         \* history: number of events fetched so far
    supply,           \* environment: events the chain has yet to return
    slept,            \* history: seconds slept by the last step
    op                \* history: the last step taken

params == <<start_from, step_arg, end_block, overflow_checks>>
cursor == <<from, step>>
store == <<collections, tokens>>
vars == <<start_from, step_arg, end_block, overflow_checks, pc, from, step,
          latest, to, events, idx, collections, tokens, ranges, log,
          nfetched, supply, slept, op>>

\* ------------------------------------------------------- u64 arithmetic
WrapAdd(a, b) == (a + b) % Modulus
WrapSub(a, b) == (a - b + Modulus) % Modulus

\* from + step - 1 and latest_block_number - 6 leave the u64 range
RangeOverflows(f, s, h) ==
    \/ f + s > U64_MAX
    \/ f + s < 1
    \/ h < CONFIRMATION_LAG

\* std::cmp::min(from + step - 1, latest_block_number - 6), wrapping
RangeEnd(f, s, h) ==
    Min(WrapSub(WrapAdd(f, s), 1), WrapSub(h, CONFIRMATION_LAG))

\* end_block is Some(e) and to > e
PastEnd(t, e) == e # None /\ t > e

ShrinkStep_NoFloor(s) == s \div 2

\* step = std::cmp::max(step / 2, 1)
ShrinkStep(s) == Max(s \div 2, 1)

\* --------------------------------------------------------------- the store
\* get_collection_from_db: the id of the first row of the address, 0 if none
GetCollection(cols, address) ==
    IF \E i \in 1..Len(cols) : cols[i].address = address
    THEN CHOOSE i \in 1..Len(cols) :
            /\ cols[i].address = address
            /\ \A j \in 1..(i - 1) : cols[j].address # address
    ELSE 0

\* add_collection_to_db: appends a row; the new id is its position
AddCollection(cols, address, named) ==
    Append(cols, [address |-> address, named |-> named])

\* get_token_from_db: the position of the first row of the pair, 0 if none
GetToken(toks, cid, tid) ==
    IF \E i \in 1..Len(toks) : toks[i].collection_id = cid /\ toks[i].token_id = tid
    THEN CHOOSE i \in 1..Len(toks) :
            /\ toks[i].collection_id = cid /\ toks[i].token_id = tid
            /\ \A j \in 1..(i - 1) :
                  ~(toks[j].collection_id = cid /\ toks[j].token_id = tid)
    ELSE 0

\* add_token_to_db: appends a row
AddToken(toks, cid, tid, has_uri) ==
    Append(toks, [collection_id |-> cid, token_id |-> tid, has_uri |-> has_uri])

\* ------------------------------------------------------------ the resolver
\* Answers of the chain client
NameSymbolAnswers == {"err", "none", "some"}
TokenUriAnswers == {"err", "none", "some"}
CallbackAnswers == {"ok", "err"}

NeedsCollection_Always(cols, address) == TRUE

\* whether the collection lookup leads to a remote name/symbol fetch
NeedsCollection(cols, address) == GetCollection(cols, address) = 0

NeedsToken_Always(toks, cid, tid) == TRUE

NeedsToken_Never(toks, cid, tid) == FALSE

\* whether the token lookup leads to a remote token-URI fetch
NeedsToken(toks, cid, tid) == GetToken(toks, cid, tid) = 0

\* save_metadata_to_db_if_not_exists with a Token row inserted, without a
\* URI, when the token-URI fetch fails
SaveMetadata_PartialRow(cols, toks, address, tid, ns, uri) ==
    IF NeedsCollection(cols, address) /\ ns = "err"
    THEN [collections |-> cols, tokens |-> toks, result |-> "name_symbol_err",
          ns_fetched |-> TRUE, uri_fetched |-> FALSE]
    ELSE LET cols2 == IF NeedsCollection(cols, address)
                      THEN AddCollection(cols, address, ns = "some")
                      ELSE cols
             cid == GetCollection(cols2, address)
         IN  IF NeedsToken(toks, cid, tid)
             THEN [collections |-> cols2,
                   tokens |-> AddToken(toks, cid, tid, uri = "some"),
                   result |-> IF uri = "err" THEN "token_uri_err" ELSE "ok",
                   ns_fetched |-> NeedsCollection(cols, address),
                   uri_fetched |-> TRUE]
             ELSE [collections |-> cols2, tokens |-> toks, result |-> "ok",
                   ns_fetched |-> NeedsCollection(cols, address),
                   uri_fetched |-> FALSE]

\* save_metadata_to_db_if_not_exists: the store after the call, what it
\* returned ("ok", or the error of the remote fetch that failed) and which
\* remote fetches it issued (get_erc721_name_symbol, get_erc721_token_uri)
SaveMetadata(cols, toks, address, tid, ns, uri) ==
    IF NeedsCollection(cols, address) /\ ns = "err"
    THEN [collections |-> cols, tokens |-> toks, result |-> "name_symbol_err",
          ns_fetched |-> TRUE, uri_fetched |-> FALSE]
    ELSE LET cols2 == IF NeedsCollection(cols, address)
                      THEN AddCollection(cols, address, ns = "some")
                      ELSE cols
             cid == GetCollection(cols2, address)
         IN  IF NeedsToken(toks, cid, tid)
             THEN IF uri = "err"
                  THEN [collections |-> cols2, tokens |-> toks,
                        result |-> "token_uri_err",
                        ns_fetched |-> NeedsCollection(cols, address),
                        uri_fetched |-> TRUE]
                  ELSE [collections |-> cols2,
                        tokens |-> AddToken(toks, cid, tid, uri = "some"),
                        result |-> "ok",
                        ns_fetched |-> NeedsCollection(cols, address),
                        uri_fetched |-> TRUE]
             ELSE [collections |-> cols2, tokens |-> toks, result |-> "ok",
                   ns_fetched |-> NeedsCollection(cols, address),
                   uri_fetched |-> FALSE]

Metadata_IgnoresUri(cols, toks, address, tid) ==
    LET cid == GetCollection(cols, address) IN
    IF cid = 0 THEN "absent"
    ELSE LET t == GetToken(toks, cid, tid) IN
         IF t = 0 THEN "absent"
         ELSE IF cols[cid].named THEN "some" ELSE "pending"

Metadata_IgnoresName(cols, toks, address, tid) ==
    LET cid == GetCollection(cols, address) IN
    IF cid = 0 THEN "absent"
    ELSE LET t == GetToken(toks, cid, tid) IN
         IF t = 0 THEN "absent"
         ELSE IF toks[t].has_uri THEN "some" ELSE "pending"

\* get_metadata after a successful save: "absent" (an unwrap of None),
\* "some" (the enriched tuple) or "pending" (Ok(None))
Metadata(cols, toks, address, tid) ==
    LET cid == GetCollection(cols, address) IN
    IF cid = 0 THEN "absent"
    ELSE LET t == GetToken(toks, cid, tid) IN
         IF t = 0 THEN "absent"
         ELSE IF cols[cid].named /\ toks[t].has_uri THEN "some" ELSE "pending"

\* process_event: the store afterwards and the outcome of the event:
\* "name_symbol_err", "token_uri_err" (get_metadata returned Err),
\* "pending" (Ok(None): no callback), "delivered" (the callback returned Ok),
\* "callback_err" (the callback returned Err), "panic" (an unwrap of None)
Errors == {"name_symbol_err", "token_uri_err", "callback_err"}
CallbackInvoked == {"delivered", "callback_err"}

ProcessEvent(cols, toks, ev, ns, uri, cb) ==
    LET s == SaveMetadata(cols, toks, ev.address, ev.token_id, ns, uri)
        m == Metadata(s.collections, s.tokens, ev.address, ev.token_id)
    IN  [collections |-> s.collections,
         tokens |-> s.tokens,
         outcome |-> IF s.result # "ok" THEN s.result
                     ELSE IF m = "absent" THEN "panic"
                     ELSE IF m = "pending" THEN "pending"
                     ELSE IF cb = "ok" THEN "delivered" ELSE "callback_err"]

ContinuesAfter_BreakOnError(outcome) == outcome \notin Errors

\* the for loop goes on after an event whatever process_event returned
ContinuesAfter(outcome) == TRUE

EventAt_Reversed(batch, k) == batch[Len(batch) + 1 - k]

\* the event the for loop hands to process_event at its k-th turn
EventAt(batch, k) == batch[k]

\* ----------------------------------------------------------------- batches
EventKinds == [address : Addresses, token_id : TokenIds]

Batches(n) == UNION {[1..k -> EventKinds] : k \in 0..n}

\* the batch as returned by get_erc721_events, numbered in fetch order
Numbered(batch, base) ==
    [k \in 1..Len(batch) |->
        [id |-> base + k, address |-> batch[k].address, token_id |-> batch[k].token_id]]

\* -------------------------------------------------------------------- Init
\* the loop before its first iteration
LoopStart ==
    /\ pc = "poll"
    /\ from = start_from
    /\ step = step_arg
    /\ latest = None
    /\ to = None
    /\ events = <<>>
    /\ idx = 0
    /\ collections = <<>>
    /\ tokens = <<>>
    /\ ranges = <<>>
    /\ log = <<>>
    /\ nfetched = 0
    /\ slept = 0
    /\ op = "start"

\* any call of track_erc721_events, on a chain holding one event
InitScan ==
    /\ start_from \in 0..MaxStart
    /\ step_arg \in 0..MaxStep
    /\ end_block \in {None} \cup (0..MaxEnd)
    /\ overflow_checks \in BOOLEAN
    /\ supply = 1
    /\ LoopStart

\* track_erc721_events(0, 1, None) on a chain holding up to MaxEvents events
InitResolve ==
    /\ start_from = 0
    /\ step_arg = 1
    /\ end_block = None
    /\ overflow_checks = FALSE
    /\ supply = MaxEvents
    /\ LoopStart

Init == InitScan \/ InitResolve

CaughtUp_Never(t, f) == FALSE

\* to >= from fails: the scan has caught up with the confirmed head
CaughtUp(t, f) == t < f

\* ----------------------------------------------------------------- actions
\* the iteration ends and its locals go out of scope
EndIteration(secs, what) ==
    /\ pc' = "poll"
    /\ slept' = secs
    /\ op' = what
    /\ latest' = None
    /\ to' = None
    /\ events' = <<>>
    /\ idx' = 0

\* a panic unwinds out of the loop
Panic ==
    /\ pc' = "panicked"
    /\ slept' = 0
    /\ op' = "panic"
    /\ UNCHANGED <<latest, to, events, idx>>

\* get_latest_block_number fails: log, sleep 30s
GetLatestErr ==
    /\ pc = "poll"
    /\ from <= MaxFrom
    /\ EndIteration(SLEEP_ON_WAIT, "head_err")
    /\ UNCHANGED <<params, cursor, store, ranges, log, nfetched, supply>>

\* get_latest_block_number returns h: compute to, then break, go on to the
\* range fetch, or sleep 30s when caught up
GetLatestOk(h) ==
    /\ pc = "poll"
    /\ from <= MaxFrom
    /\ IF overflow_checks /\ RangeOverflows(from, step, h)
       THEN Panic
       ELSE LET t == RangeEnd(from, step, h) IN
            IF PastEnd(t, end_block)
            THEN /\ pc' = "done"
                 /\ op' = "break"
                 /\ latest' = h
                 /\ to' = t
                 /\ slept' = 0
                 /\ UNCHANGED <<events, idx>>
            ELSE IF ~CaughtUp(t, from)
                 THEN /\ pc' = "fetch"
                      /\ op' = "head_ok"
                      /\ latest' = h
                      /\ to' = t
                      /\ slept' = 0
                      /\ UNCHANGED <<events, idx>>
                 ELSE EndIteration(SLEEP_ON_WAIT, "caught_up")
    /\ UNCHANGED <<params, cursor, store, ranges, log, nfetched, supply>>

\* from = to + 1 and the 5s sleep that end a successful iteration
\* (to + 1 leaves the u64 range when to = u64::MAX)
Advance ==
    IF to = U64_MAX /\ overflow_checks
    THEN Panic /\ UNCHANGED from
    ELSE from' = WrapAdd(to, 1) /\ EndIteration(SLEEP_AFTER_BATCH, "batch_done")

\* get_erc721_events returns Ok(batch)
FetchOk(batch) ==
    /\ pc = "fetch"
    /\ Len(ranges) < MaxFetches
    /\ ranges' = Append(ranges, <<from, to>>)
    /\ nfetched' = nfetched + Len(batch)
    /\ supply' = supply - Len(batch)
    /\ IF Len(batch) = 0
       THEN Advance
       ELSE /\ events' = Numbered(batch, nfetched)
            /\ idx' = 1
            /\ pc' = "events"
            /\ op' = "fetch_ok"
            /\ slept' = 0
            /\ latest' = None      \* not read again in this iteration
            /\ UNCHANGED <<from, to>>
    /\ UNCHANGED <<params, step, store, log>>

\* get_erc721_events fails with an Rpc error whose message contains "more than"
FetchTooLarge ==
    /\ pc = "fetch"
    /\ step' = ShrinkStep(step)
    /\ EndIteration(0, "too_large")
    /\ UNCHANGED <<params, from, store, ranges, log, nfetched, supply>>

\* get_erc721_events fails with any other error: log, sleep 30s
FetchErr ==
    /\ pc = "fetch"
    /\ EndIteration(SLEEP_ON_WAIT, "fetch_err")
    /\ UNCHANGED <<params, cursor, store, ranges, log, nfetched, supply>>

\* one turn of `for event in events`: process_event on the next event with
\* the client answering ns and uri and the callback answering cb; after the
\* last event the iteration ends with from = to + 1 and the 5s sleep
DispatchEvent(ns, uri, cb) ==
    /\ pc = "events"
    /\ LET ev == EventAt(events, idx)
           r == ProcessEvent(collections, tokens, ev, ns, uri, cb)
       IN  /\ collections' = r.collections
           /\ tokens' = r.tokens
           /\ log' = Append(log, [id |-> ev.id, outcome |-> r.outcome])
           /\ IF r.outcome = "panic"
              THEN Panic /\ UNCHANGED from
              ELSE IF idx = Len(events) \/ ~ContinuesAfter(r.outcome)
                   THEN Advance
                   ELSE /\ idx' = idx + 1
                        /\ op' = "event"
                        /\ slept' = 0
                        /\ UNCHANGED <<from, pc, latest, to, events>>
    /\ UNCHANGED <<params, step, ranges, nfetched, supply>>

Next ==
    \/ GetLatestErr
    \/ \E h \in 0..MaxHead : GetLatestOk(h)
    \/ \E b \in Batches(supply) : FetchOk(b)
    \/ FetchTooLarge
    \/ FetchErr
    \/ \E ns \in NameSymbolAnswers, uri \in TokenUriAnswers, cb \in CallbackAnswers :
          DispatchEvent(ns, uri, cb)

Spec == Init /\ [][Next]_vars

\* The run under the premises of the termination claim: end_block is set,
\* start_from <= end_block, step >= 1, every head the client returns is at least end_block + 6, and
\* neither head queries nor range fetches fail forever.
LiveInit ==
    /\ InitScan
    /\ end_block # None
    /\ start_from <= end_block
    /\ step_arg >= 1

LiveNext ==
    \/ GetLatestErr
    \/ \E h \in (end_block + CONFIRMATION_LAG)..MaxHead : GetLatestOk(h)
    \/ \E b \in Batches(supply) : FetchOk(b)
    \/ FetchTooLarge
    \/ FetchErr
    \/ \E ns \in NameSymbolAnswers, uri \in TokenUriAnswers, cb \in CallbackAnswers :
          DispatchEvent(ns, uri, cb)

LiveSpec ==
    /\ LiveInit
    /\ [][LiveNext]_vars
    /\ WF_vars(LiveNext)
    /\ SF_vars(\E h \in (end_block + CONFIRMATION_LAG)..MaxHead : GetLatestOk(h))
    /\ SF_vars(\E b \in Batches(supply) : FetchOk(b))

\* ------------------------------------------------------------------ claims
\* block b lies in a range that was fetched successfully
Covered(b) == \E i \in 1..Len(ranges) : ranges[i][1] <= b /\ b <= ranges[i][2]

\* the ids of the events handed to process_event, in order
Dispatched == [i \in 1..Len(log) |-> log[i].id]

\* C1: when end_block is set, for every start_from and every step >= 1 the
\* loop breaks only after every block of [start_from, end_block] has been
\* covered by a successful range fetch (whose events were all dispatched
\* before the next head query).
C1_BreaksOnlyAfterEndBlockScanned ==
    (pc = "done" /\ step_arg >= 1) => \A b \in start_from..end_block : Covered(b)

\* C2: the upper bound of a range passed to get_erc721_events is at most
\* the head height of that iteration minus 6.
C2_ConfirmationLag ==
    pc = "fetch" => to <= latest - CONFIRMATION_LAG

\* C3: the callback is invoked in the order the fetches returned the events,
\* no event twice: the ids of the callback invocations, numbered in fetch
\* order across batches, strictly increase.
C3_DeliveryInFetchOrder ==
    \A i, j \in 1..Len(log) :
        (i < j /\ log[i].outcome \in CallbackInvoked /\ log[j].outcome \in CallbackInvoked)
            => log[i].id < log[j].id

\* two events of the first batch were both delivered to the callback
C3_Witness ==
    /\ Len(ranges) = 1
    /\ Len(log) = 2
    /\ log[1].outcome \in CallbackInvoked
    /\ log[2].outcome \in CallbackInvoked

\* C4: an error of the resolver or of the callback is caught in the loop:
\* whatever the outcomes, every fetched event is handed to process_event
\* exactly once and in order, the loop does not end, and after the batch the
\* cursor is to + 1 of the fetched range.
C4_ErrorsAreIsolated ==
    /\ pc = "poll" => Dispatched = [i \in 1..nfetched |-> i]
    /\ pc = "events" => Dispatched = [i \in 1..(events[idx].id - 1) |-> i]
    /\ (pc = "poll" /\ op = "batch_done")
          => from = (ranges[Len(ranges)][2] + 1) % Modulus
    /\ (pc = "panicked" /\ events # <<>>) => log[Len(log)].outcome \notin Errors

\* a batch in which the first event failed and the second was still
\* dispatched, the cursor advanced
C4_Witness ==
    /\ pc = "poll"
    /\ op = "batch_done"
    /\ Len(ranges) = 1
    /\ Len(log) = 2
    /\ log[1].outcome \in Errors
    /\ from = ranges[1][2] + 1

\* C5: the loop ends only by the break at the end-block boundary: never
\* with end_block unset, and with end_block set only with to > end_block.
C5_EndsOnlyAtEndBlock ==
    pc \in {"done", "panicked"}
        => (pc = "done" /\ end_block # None /\ to > end_block)

\* C6: a Collection row is created at most once per address.
C6_OneCollectionRowPerAddress ==
    \A i, j \in 1..Len(collections) :
        collections[i].address = collections[j].address => i = j

\* one address was seen twice with differing token ids: one Collection row,
\* two Token rows
C6_Witness ==
    /\ Len(log) = 2
    /\ Len(collections) = 1
    /\ Len(tokens) = 2

\* C7: a Token row is created at most once per (collection id, token id).
C7_OneTokenRowPerPair ==
    \A i, j \in 1..Len(tokens) :
        (tokens[i].collection_id = tokens[j].collection_id
            /\ tokens[i].token_id = tokens[j].token_id) => i = j

\* one (collection, token id) pair was resolved twice and has one Token row
C7_Witness ==
    /\ Len(log) = 2
    /\ log[1].outcome \notin Errors
    /\ log[2].outcome \notin Errors
    /\ Len(tokens) = 1

\* C8: a range-too-large failure strictly decreases step until it is 1,
\* step is not 0 after a shrink, and step never exceeds the value passed.
C8_StepShrinksFromArgument ==
    [][ /\ step' <= step_arg'
        /\ op' = "too_large" =>
              /\ step' >= 1
              /\ IF step > 1 THEN step' < step ELSE step' <= step ]_vars

\* C9: a range fetch failing with "more than" sets step to max(step/2, 1),
\* leaves from unchanged, dispatches nothing and is followed by no sleep.
C9_TooLargeHalvesStep ==
    [][ (pc = "fetch" /\ op' = "too_large") =>
            /\ step' = (IF step \div 2 >= 1 THEN step \div 2 ELSE 1)
            /\ from' = from
            /\ log' = log
            /\ ranges' = ranges
            /\ store' = store
            /\ slept' = 0
            /\ pc' = "poll" ]_vars

\* step 4 was halved to 2 with the cursor where it started
C9_Witness ==
    /\ op = "too_large"
    /\ step_arg = 4
    /\ step = 2
    /\ from = start_from
    /\ slept = 0

\* C10: with end_block set, heads at or above end_block + 6 and no
\* everlasting failure of head queries or range fetches, the loop
\* eventually breaks.
C10_EventuallyTerminates == <>(pc = "done")

\* C11: a failed head query, and a failed range fetch that is not a
\* "more than" Rpc error, leave from and step unchanged, dispatch nothing
\* and are followed by a 30s sleep before the next head query.
C11_FailuresWait30s ==
    [][ (pc \in {"poll", "fetch"} /\ op' \in {"head_err", "fetch_err"}) =>
            /\ from' = from
            /\ step' = step
            /\ log' = log
            /\ ranges' = ranges
            /\ store' = store
            /\ slept' = 30
            /\ pc' = "poll" ]_vars

\* a range fetch failed after one batch had been scanned: the cursor rests
\* behind that batch and 30s were slept
C11_Witness ==
    /\ op = "fetch_err"
    /\ pc = "poll"
    /\ slept = 30
    /\ Len(ranges) = 1
    /\ from = ranges[1][2] + 1
    /\ step = step_arg

\* C12: after a successful fetch of [from, to], from is exactly to + 1,
\* step is unchanged and a 5s sleep follows.
C12_SuccessAdvancesPastTo ==
    [][ (pc \in {"fetch", "events"} /\ op' = "batch_done") =>
            /\ from' = to + 1
            /\ step' = step
            /\ slept' = 5
            /\ pc' = "poll" ]_vars

\* C13: when to < from and the loop did not break, no range is fetched,
\* nothing is dispatched, from and step are unchanged and 30s are slept.
C13_CaughtUpWaits ==
    [][ /\ (pc = "poll" /\ pc' = "fetch") => (to' >= from /\ from' = from)
        /\ (pc = "poll" /\ op' = "caught_up") =>
              /\ from' = from
              /\ step' = step
              /\ log' = log
              /\ ranges' = ranges
              /\ nfetched' = nfetched
              /\ store' = store
              /\ slept' = 30
              /\ pc' = "poll" ]_vars

\* with overflow checks, step 4 and heads up to MaxHead, [start_from, 2] was
\* scanned and from is 3: to = head - 6 < from, and the loop waits
C13_Witness ==
    /\ overflow_checks
    /\ op = "caught_up"
    /\ step = 4
    /\ from = MaxHead - CONFIRMATION_LAG + 1
    /\ Len(ranges) = 1
    /\ ranges[1][2] = from - 1
    /\ slept = 30

\* a Collection row of the address exists
HasCollectionRow(cols, address) ==
    \E i \in 1..Len(cols) : cols[i].address = address

\* a Token row exists for the token id under a Collection row of the address
HasTokenRow(cols, toks, address, tid) ==
    \E i \in 1..Len(cols), j \in 1..Len(toks) :
        /\ cols[i].address = address
        /\ toks[j].collection_id = i
        /\ toks[j].token_id = tid

\* a Collection row of the address exists with name and symbol unset
HasUnnamedRow(cols, address) ==
    \E i \in 1..Len(cols) : cols[i].address = address /\ ~cols[i].named

\* C14: resolving an event fetches name/symbol remotely only when no
\* Collection row exists for its address, and the token URI only when no
\* Token row exists for its (collection, token id), whatever the rows hold.
C14_FetchOnlyWhenRowAbsent ==
    pc = "events" =>
        LET ev == EventAt(events, idx) IN
        \A ns \in NameSymbolAnswers, uri \in TokenUriAnswers :
            LET s == SaveMetadata(collections, tokens, ev.address, ev.token_id, ns, uri)
            IN  /\ s.ns_fetched => ~HasCollectionRow(collections, ev.address)
                /\ s.uri_fetched =>
                      ~HasTokenRow(collections, tokens, ev.address, ev.token_id)

\* an event is about to be resolved whose Collection row exists with name
\* and symbol unset and whose Token row exists without a URI
C14_Witness ==
    /\ pc = "events"
    /\ HasUnnamedRow(collections, EventAt(events, idx).address)
    /\ \E j \in 1..Len(tokens) :
          /\ tokens[j].collection_id = GetCollection(collections, EventAt(events, idx).address)
          /\ tokens[j].token_id = EventAt(events, idx).token_id
          /\ ~tokens[j].has_uri

\* C15: when the token-URI fetch fails, the event ends with that error
\* (no callback), no Token row is created for the pair, and the next
\* sighting of the same token issues the URI fetch again.
C15_UriFailureLeavesNoRow ==
    [][ (pc = "events" /\ Len(log') > Len(log)
            /\ log'[Len(log')].outcome = "token_uri_err") =>
            LET ev == EventAt(events, idx) IN
            /\ tokens' = tokens
            /\ ~HasTokenRow(collections', tokens', ev.address, ev.token_id)
            /\ log'[Len(log')].outcome \notin CallbackInvoked
            /\ \A ns \in NameSymbolAnswers, uri \in TokenUriAnswers :
                  SaveMetadata(collections', tokens', ev.address, ev.token_id,
                               ns, uri).uri_fetched ]_vars

\* a token-URI fetch has failed: the Collection row exists, no Token row
C15_Witness ==
    /\ Len(log) = 1
    /\ log[1].outcome = "token_uri_err"
    /\ Len(collections) = 1
    /\ tokens = <<>>

\* get_metadata returned Err: one of the two remote fetches failed
ResolutionErrors == {"name_symbol_err", "token_uri_err"}

\* the stored Collection of the address has name and symbol set and the
\* stored Token of the pair has a URI set
StoredComplete(cols, toks, address, tid) ==
    \E i \in 1..Len(cols), j \in 1..Len(toks) :
        /\ cols[i].address = address
        /\ cols[i].named
        /\ toks[j].collection_id = i
        /\ toks[j].token_id = tid
        /\ toks[j].has_uri

\* C16 as stated: the callback is invoked for an event iff resolution
\* succeeded and the stored name, symbol and URI are set; in every other
\* case the outcome is pending, no error is reported, and the event is not
\* dispatched again.
C16_CallbackIffComplete_Stated ==
    [][ (pc = "events" /\ Len(log') > Len(log)) =>
            LET ev == EventAt(events, idx)
                o  == log'[Len(log')].outcome
                complete == StoredComplete(collections', tokens', ev.address, ev.token_id)
            IN  /\ (o \in CallbackInvoked) <=> (o \notin ResolutionErrors /\ complete)
                /\ (o \notin CallbackInvoked) => (o = "pending" /\ o \notin Errors)
                /\ \A i \in 1..Len(log) : log[i].id # ev.id ]_vars

\* C16 amended: the callback is invoked for an event iff resolution
\* succeeded and the stored name, symbol and URI are set; when resolution
\* succeeded with a field unset the outcome is pending (no callback, no
\* error); when resolution failed the outcome is that error (no callback)
\* and the stored record is incomplete; the event is not dispatched again.
C16_CallbackIffComplete ==
    [][ (pc = "events" /\ Len(log') > Len(log)) =>
            LET ev == EventAt(events, idx)
                o  == log'[Len(log')].outcome
                complete == StoredComplete(collections', tokens', ev.address, ev.token_id)
            IN  /\ (o \in CallbackInvoked) <=> (o \notin ResolutionErrors /\ complete)
                /\ (o \notin ResolutionErrors /\ ~complete) => o = "pending"
                /\ (o \in ResolutionErrors) => (~complete /\ o \in Errors)
                /\ \A i \in 1..Len(log) : log[i].id # ev.id ]_vars

\* a pending event was dropped and the next event of the batch delivered
C16_Witness ==
    /\ Len(log) = 2
    /\ log[1].outcome = "pending"
    /\ log[2].outcome = "delivered"

\* C17: from never decreases, the fetched ranges start at start_from, are
\* non-empty and each begins right after the previous one ends, and every
\* block of [start_from, from - 1] lies in exactly one fetched range.
C17_RangesPartitionScanned ==
    [][ /\ from' >= from
        /\ \A i \in 1..Len(ranges') : ranges'[i][1] <= ranges'[i][2]
        /\ Len(ranges') >= 1 => ranges'[1][1] = start_from
        /\ \A i \in 1..(Len(ranges') - 1) : ranges'[i + 1][1] = ranges'[i][2] + 1
        /\ \A b \in start_from..(from' - 1) :
              Cardinality({i \in 1..Len(ranges') :
                              ranges'[i][1] <= b /\ b <= ranges'[i][2]}) = 1 ]_vars

\* C18: an event whose address has a Collection row with name and symbol
\* unset is never delivered to the callback, whatever the chain client
\* answers, and such a row stays unset for the rest of the run.
C18_UnnamedNeverDelivered ==
    [][ /\ \A a \in Addresses :
              HasUnnamedRow(collections, a) => HasUnnamedRow(collections', a)
        /\ (pc = "events" /\ Len(log') > Len(log)
               /\ HasUnnamedRow(collections, EventAt(events, idx).address))
              => log'[Len(log')].outcome \notin CallbackInvoked ]_vars

\* two events of a contract without name and symbol: the row was created
\* unset at the first, the second was resolved against it, neither delivered
C18_Witness ==
    /\ Len(log) = 2
    /\ Len(collections) = 1
    /\ ~collections[1].named
    /\ Len(tokens) = 2
    /\ tokens[1].has_uri /\ tokens[2].has_uri
    /\ log[2].outcome = "pending"

\* C19: the range computation never leaves the u64 range: a head query
\* never ends in a panic, and a range is fetched only when neither
\* from + step - 1 nor latest_block_number - 6 wrapped.
C19_RangeNeverWraps ==
    [][ pc = "poll" =>
            /\ pc' # "panicked"
            /\ pc' = "fetch" => ~RangeOverflows(from, step, latest') ]_vars

\* C20: when save_metadata_to_db_if_not_exists returns Ok, the Collection
\* row of the address and the Token row of the pair exist, so neither
\* lookup of get_metadata finds an absent row and no unwrap panics.
C20_RowsExistAfterSave ==
    /\ \A i \in 1..Len(log) : log[i].outcome # "panic"
    /\ pc = "events" =>
          LET ev == EventAt(events, idx) IN
          \A ns \in NameSymbolAnswers, uri \in TokenUriAnswers :
              LET s == SaveMetadata(collections, tokens, ev.address, ev.token_id, ns, uri)
              IN  s.result = "ok" =>
                      /\ HasCollectionRow(s.collections, ev.address)
                      /\ HasTokenRow(s.collections, s.tokens, ev.address, ev.token_id)
                      /\ Metadata(s.collections, s.tokens, ev.address, ev.token_id)
                             # "absent"

\* both rows were just created by the save and the lookups found them; a
\* second event is about to be resolved
C20_Witness ==
    /\ pc = "events"
    /\ idx = 2
    /\ Len(log) = 1
    /\ log[1].outcome \in CallbackInvoked
    /\ Len(collections) = 1
    /\ Len(tokens) = 1

TypeOK ==
    /\ pc \in {"poll", "fetch", "events", "done", "panicked"}
    /\ from \in 0..U64_MAX
    /\ step \in 0..MaxStep
    /\ slept \in {0, SLEEP_AFTER_BATCH, SLEEP_ON_WAIT}
====
